---- MODULE Spec2Model ----
(***************************************************************************)
(* A model of broadphase-rs' Layer (src/src/layer.rs): a flat array of     *)
(* (cell code, object id) entries with a sorted flag, the mutation         *)
(* surface (clear, extend, merge, sort), the all-pairs scan (sequential    *)
(* and fork/join parallel) and the recursive test kernel with its test     *)
(* and pick adapters.                                                      *)
(*                                                                         *)
(* The SpatialIndex, IndexGenerator, SystemBounds and TestGeometry traits  *)
(* live in crate::index and crate::geom, which are not part of layer.rs;   *)
(* they are modelled from their documented contracts, instantiated for a   *)
(* one-dimensional space (every cell has two children).  A cell is the     *)
(* sequence of child digits on the path from the root.                     *)
(***************************************************************************)
EXTENDS Integers, Sequences, FiniteSets, TLC

VARIABLES layer, last, dirty, queries, kin, kout

vars == <<layer, last, dirty, queries, kin, kout>>

\* SpatialIndex: the deepest level, where subdivide yields nothing
MaxDepth == 2
\* most ids (tree entries plus invalid entries) the mutations let a layer hold
MaxLen == 2
\* longest tree the scans run on
MaxScanLen == 4
\* longest slice the test kernel is called on directly
MaxSliceLen == 2
\* most items the layers that are queried were extended by
MaxQueryItems == 2
\* most queries made on one such layer
MaxQueries == 2

\* the object ids in use
IDs == {1, 2}

(***************************************************************************)
(* SpatialIndex: cells, their total order, overlaps, depth, subdivide.     *)
(***************************************************************************)
Digits == {0, 1}

Cells == UNION {[1..d -> Digits] : d \in 0..MaxDepth}

Pow2(n) == 2^n

\* Index::default(): the root cell
RootCell == <<>>

\* SpatialIndex::depth
Depth(c) == Len(c)

IsPrefix(a, b) == Len(a) <= Len(b) /\ SubSeq(b, 1, Len(a)) = a

\* SpatialIndex::overlaps: one cell is an ancestor of (or equal to) the other
Overlaps(a, b) == IsPrefix(a, b) \/ IsPrefix(b, a)

\* SpatialIndex::same_cell_at_depth: both cells lie under one cell of depth d
SameCellAtDepth(a, b, d) ==
    Len(a) >= d /\ Len(b) >= d /\ SubSeq(a, 1, d) = SubSeq(b, 1, d)

\* SpatialIndex::subdivide: the children in order, or nothing at a leaf
Subdivide(c) ==
    IF Len(c) >= MaxDepth THEN <<>> ELSE <<Append(c, 0), Append(c, 1)>>

\* number of cells in the subtree below (and including) a cell of depth d
SubtreeSize(d) == Pow2(MaxDepth - d + 1) - 1

RECURSIVE CodeFrom(_, _)
CodeFrom(c, i) ==
    IF i > Len(c) THEN 0
    ELSE 1 + c[i] * SubtreeSize(i) + CodeFrom(c, i + 1)

\* the cell code: the total order puts a cell right before its descendants
Code(c) == CodeFrom(c, 1)

CellLess(a, b) == Code(a) < Code(b)

\* Ord for (Index, ID): by cell, then by id
EntryLess(x, y) == CellLess(x[1], y[1]) \/ (x[1] = y[1] /\ x[2] < y[2])

IsAscending(t) ==
    \A i \in 1..(Len(t) - 1) : EntryLess(t[i], t[i + 1]) \/ t[i] = t[i + 1]

(***************************************************************************)
(* Bounds, SystemBounds and IndexGenerator (one-dimensional).  A box is    *)
(* <<lo, hi>>, the interval [lo, hi) in units of the smallest cell; the    *)
(* system bounds are [0, Grid).                                            *)
(***************************************************************************)
Grid == Pow2(MaxDepth)

CellSize(d) == Pow2(MaxDepth - d)

RECURSIVE CellLoFrom(_, _)
CellLoFrom(c, i) ==
    IF i > Len(c) THEN 0 ELSE c[i] * CellSize(i) + CellLoFrom(c, i + 1)

CellLo(c) == CellLoFrom(c, 1)

CellHi(c) == CellLo(c) + CellSize(Len(c))

\* SystemBounds::contains
Contains(box) == 0 <= box[1] /\ box[2] <= Grid

\* the deepest level whose cells are at least as large as the box
NaturalDepth(box) ==
    CHOOSE d \in 0..MaxDepth :
        /\ CellSize(d) >= box[2] - box[1]
        /\ (d = MaxDepth \/ CellSize(d + 1) < box[2] - box[1])

RECURSIVE SortedCells(_)
SortedCells(S) ==
    IF S = {} THEN <<>>
    ELSE LET m == CHOOSE c \in S : \A o \in S : Code(c) <= Code(o)
         IN  <<m>> \o SortedCells(S \ {m})

\* IndexGenerator::indices(Some(min_depth)): the cells of one level, at depth
\* >= min_depth, that cover the box
Indices(box, min_depth) ==
    LET nd == NaturalDepth(box)
        d  == IF nd < min_depth THEN min_depth ELSE nd
    IN  SortedCells({c \in [1..d -> Digits] :
                        CellLo(c) < box[2] /\ box[1] < CellHi(c)})

\* the boxes handed to extend: the whole system, its left half, a box across
\* the middle, two smallest cells, and a box that leaves the system bounds
Boxes ==
    { <<0, Grid>>, <<0, Grid \div 2>>, <<(Grid \div 2) - 1, (Grid \div 2) + 1>>,
      <<0, 1>>, <<Grid \div 2, (Grid \div 2) + 1>>, <<Grid - 1, Grid + 1>> }

Items == Boxes \X IDs

\* the iterators handed to extend: none, one item, and an item of id 2 after
\* an item of id 1 whose box leaves the system bounds
ItemLists ==
    {<<>>} \cup {<<it>> : it \in Items}
    \cup {<<<<<<Grid - 1, Grid + 1>>, 1>>, <<b, 2>>>> : b \in Boxes}

(***************************************************************************)
(* Layer: construction and the mutation surface.                           *)
(***************************************************************************)
\* the min_depth values handed to LayerBuilder; the last one is deeper than
\* any cell, a layer built with it is only merged into
MinDepths == 0..(MaxDepth + 1)

\* LayerBuilder::build
Build(depth) ==
    [ min_depth |-> depth, tree |-> <<>>, sorted |-> TRUE,
      collisions |-> <<>>, test_results |-> <<>>, processed |-> {},
      invalid |-> <<>> ]

\* #[derive(Default)]: every field takes its type's default, bool is false
DefaultLayer ==
    [ min_depth |-> 0, tree |-> <<>>, sorted |-> FALSE,
      collisions |-> <<>>, test_results |-> <<>>, processed |-> {},
      invalid |-> <<>> ]

\* Layer::clear
ClearOp(L) == [L EXCEPT !.tree = <<>>, !.sorted = TRUE]

Tagged(cells, id) == [k \in 1..Len(cells) |-> <<cells[k], id>>]

RECURSIVE ExtendLoop(_, _, _)
ExtendLoop(L, items, i) ==
    IF i > Len(items) THEN L
    ELSE LET box == items[i][1]
             id  == items[i][2]
         IN  IF ~Contains(box)
             THEN ExtendLoop([L EXCEPT !.invalid = Append(@, id)], items, i + 1)
             ELSE ExtendLoop(
                    [L EXCEPT !.tree = @ \o Tagged(Indices(box, L.min_depth), id),
                              !.sorted = FALSE],
                    items, i + 1)

RECURSIVE ValidOnly(_, _)
\* the items of an extend call whose boxes the system bounds contain
ValidOnly(items, i) ==
    IF i > Len(items) THEN <<>>
    ELSE (IF Contains(items[i][1]) THEN <<items[i]>> ELSE <<>>)
         \o ValidOnly(items, i + 1)

\* an extend that skips the rejected items without recording their ids
ExtendUnrecorded(L, items) == ExtendLoop(L, ValidOnly(items, 1), 1)

\* an extend that asks the generator for indices without a minimum depth
ExtendShallow(L, items) ==
    [ExtendLoop([L EXCEPT !.min_depth = 0], items, 1) EXCEPT !.min_depth = L.min_depth]

\* Layer::extend
ExtendOp(L, items) == ExtendLoop(L, items, 1)

\* a merge that keeps its own min_depth
MergeKeepDepth(L, other) ==
    [L EXCEPT !.tree = @ \o other.tree, !.sorted = FALSE]

\* Layer::merge
MergeOp(L, other) ==
    [L EXCEPT !.min_depth = IF other.min_depth < @ THEN other.min_depth ELSE @,
              !.tree = @ \o other.tree,
              !.sorted = FALSE]

\* a sort that sets the flag and leaves the array as it is
SortFlagOnly(L) == [L EXCEPT !.sorted = TRUE]

\* Layer::sort
SortOp(L) ==
    IF ~L.sorted
    THEN [L EXCEPT !.tree = SortSeq(@, EntryLess), !.sorted = TRUE]
    ELSE L

\* Layer::par_sort
ParSortOp(L) ==
    IF ~L.sorted
    THEN [L EXCEPT !.tree = SortSeq(@, EntryLess), !.sorted = TRUE]
    ELSE L

(***************************************************************************)
(* The scan kernel and its sequential and parallel drivers.  A filter is   *)
(* the set of ordered id pairs it lets through.                            *)
(***************************************************************************)
AllPairs == IDs \X IDs

Filters == {AllPairs, {p \in AllPairs : p[1] < p[2]}}

PairLess(p, q) == p[1] < q[1] \/ (p[1] = q[1] /\ p[2] < q[2])

RECURSIVE Dedup(_)
\* Vec::dedup: drops an element equal to the one before it
Dedup(s) ==
    IF Len(s) <= 1 THEN s
    ELSE LET r == Dedup(Tail(s))
         IN  IF s[1] = r[1] THEN r ELSE <<s[1]>> \o r

\* sort_unstable followed by dedup
SortDedup(s) == Dedup(SortSeq(s, PairLess))

RECURSIVE PopStack(_, _)
\* the while-let loop: pop while the top does not overlap the entry's cell
PopStack(stack, index) ==
    IF stack = <<>> THEN stack
    ELSE IF Overlaps(index, stack[Len(stack)][1]) THEN stack
    ELSE PopStack(SubSeq(stack, 1, Len(stack) - 1), index)

RECURSIVE EmitFrom(_, _, _, _)
\* the pairs one entry pushes, in stack order
EmitFrom(stack, k, id, filter) ==
    IF k > Len(stack) THEN <<>>
    ELSE (IF id # stack[k][2] /\ <<id, stack[k][2]>> \in filter
          THEN <<<<id, stack[k][2]>>>> ELSE <<>>)
         \o EmitFrom(stack, k + 1, id, filter)

RECURSIVE ScanLoop(_, _, _, _, _)
ScanLoop(tree, i, stack, collisions, filter) ==
    IF i > Len(tree) THEN collisions
    ELSE LET index == tree[i][1]
             id    == tree[i][2]
             st    == PopStack(stack, index)
         IN  IF \E k \in 1..Len(st) : st[k][2] = id
             THEN ScanLoop(tree, i + 1, st, collisions, filter)
             ELSE ScanLoop(tree, i + 1, Append(st, tree[i]),
                           collisions \o EmitFrom(st, 1, id, filter), filter)

\* Layer::scan_impl: the pairs appended to the collisions buffer it is given
ScanImpl(tree, filter) == ScanLoop(tree, 1, <<>>, <<>>, filter)

\* Layer::scan_filtered
ScanFilteredOp(L, filter) ==
    LET S == SortOp(L)
    IN  [S EXCEPT !.collisions = SortDedup(ScanImpl(S.tree, filter)),
                  !.invalid = <<>>]

\* the slice length up to which par_scan_impl does not split.  The code's
\* constant is 64; the model scales it down so that the trees it builds
\* (MaxLen entries) take the recursive branch.
SPLIT_THRESHOLD == 1

\* the worker counts rayon::current_num_threads() is given
Threads == {1, 2, 4}

RECURSIVE AdvanceSplit(_, _, _)
\* the while loop: move right while the neighbours share a min_depth cell
AdvanceSplit(tree, i, min_depth) ==
    IF i < Len(tree) /\ SameCellAtDepth(tree[i][1], tree[i + 1][1], min_depth)
    THEN AdvanceSplit(tree, i + 1, min_depth)
    ELSE i

\* a split below the middle, without the search to the right
SplitBelowHalf(tree, min_depth) == (Len(tree) - 1) \div 2

\* a split in the middle, wherever that falls
SplitHalf(tree, min_depth) == Len(tree) \div 2

\* the index the slice is split at
SplitPoint(tree, min_depth) == AdvanceSplit(tree, Len(tree) \div 2, min_depth)

RECURSIVE ParScanImpl(_, _, _, _)
\* Layer::par_scan_impl: the pairs pushed to the workers' buffers.  Which
\* worker runs which half is the pool's choice; the caller concatenates all
\* buffers and sorts, so the buffers are modelled by their concatenation.
ParScanImpl(min_depth, threads, tree, filter) ==
    IF threads <= 1 \/ Len(tree) <= SPLIT_THRESHOLD
    THEN ScanImpl(tree, filter)
    ELSE LET i == SplitPoint(tree, min_depth)
         IN  ParScanImpl(min_depth, threads \div 2, SubSeq(tree, 1, i), filter)
             \o ParScanImpl(min_depth, threads \div 2,
                            SubSeq(tree, i + 1, Len(tree)), filter)

RECURSIVE ParSplits(_, _, _)
\* the (head, tail) pairs of every split par_scan_impl makes
ParSplits(min_depth, threads, tree) ==
    IF threads <= 1 \/ Len(tree) <= SPLIT_THRESHOLD
    THEN {}
    ELSE LET i    == SplitPoint(tree, min_depth)
             head == SubSeq(tree, 1, i)
             tail == SubSeq(tree, i + 1, Len(tree))
         IN  {<<head, tail>>}
             \cup ParSplits(min_depth, threads \div 2, head)
             \cup ParSplits(min_depth, threads \div 2, tail)

RECURSIVE ParCalls(_, _, _, _)
\* every invocation of par_scan_impl one call makes, itself included: its
\* worker count, its slice, its depth in the recursion, whether it splits
\* and the split index i (0 in the base case)
ParCalls(min_depth, threads, tree, depth) ==
    IF threads <= 1 \/ Len(tree) <= SPLIT_THRESHOLD
    THEN {[threads |-> threads, tree |-> tree, depth |-> depth,
           split |-> FALSE, i |-> 0]}
    ELSE LET i == SplitPoint(tree, min_depth)
         IN  {[threads |-> threads, tree |-> tree, depth |-> depth,
               split |-> TRUE, i |-> i]}
             \cup ParCalls(min_depth, threads \div 2, SubSeq(tree, 1, i), depth + 1)
             \cup ParCalls(min_depth, threads \div 2,
                           SubSeq(tree, i + 1, Len(tree)), depth + 1)

\* Layer::par_scan_filtered
ParScanFilteredOp(L, threads, filter) ==
    LET S == ParSortOp(L)
    IN  [S EXCEPT !.collisions =
                     SortDedup(ParScanImpl(S.min_depth, threads, S.tree, filter)),
                  !.invalid = <<>>]

(***************************************************************************)
(* TestGeometry (one-dimensional).  Distances are whole numbers of the     *)
(* smallest cell's size; INFINITY stands for every non-finite f32.  A box  *)
(* geometry tests the cells that meet the query interval [lo, hi); a ray   *)
(* geometry starts at origin, runs in direction dir (1 or -1) and tests    *)
(* the cells it enters within [rmin, rmax] and not beyond nearest.         *)
(***************************************************************************)
INFINITY == Grid + 1

MinDist(a, b) == IF a < b THEN a ELSE b

MaxOf(a, b) == IF a < b THEN b ELSE a

BoxGeom(lo, hi) == [kind |-> "box", lo |-> lo, hi |-> hi, cell |-> RootCell]

RayGeom(origin, dir, rmin, rmax) ==
    [kind |-> "ray", origin |-> origin, dir |-> dir, rmin |-> rmin,
     rmax |-> rmax, cell |-> RootCell]

RayEnter(g) ==
    MaxOf(g.rmin, IF g.dir = 1 THEN CellLo(g.cell) - g.origin
                  ELSE g.origin - CellHi(g.cell))

RayLeave(g) ==
    MinDist(g.rmax, IF g.dir = 1 THEN CellHi(g.cell) - g.origin
                    ELSE g.origin - CellLo(g.cell))

\* TestGeometry::should_test
ShouldTest(g, nearest) ==
    IF g.kind = "box"
    THEN CellLo(g.cell) < g.hi /\ g.lo < CellHi(g.cell)
    ELSE RayEnter(g) <= nearest /\ RayEnter(g) <= RayLeave(g)

\* TestGeometry::subdivide: one sub-geometry per child cell, in child order
SubdivideGeom(g) ==
    [k \in 1..Len(Subdivide(g.cell)) |-> [g EXCEPT !.cell = Subdivide(g.cell)[k]]]

\* TestGeometry::test_order: near to far along a ray
TestOrder(g) ==
    IF g.kind = "ray" /\ g.dir = -1 THEN <<2, 1>> ELSE <<1, 2>>

(***************************************************************************)
(* The test kernel.  Its callback is a closure over the caller's buffers:  *)
(* st carries nearest, those buffers, whether the kernel panicked, and     *)
(* calls, the record of every callback invocation: the cell the kernel     *)
(* stood on, the entry (index, id) handed over, what the callback returned *)
(* and nearest before the call.  measured lists the ids handed to          *)
(* get_dist, in order.                                                     *)
(***************************************************************************)
None == [some |-> FALSE, val |-> 0]

Some(v) == [some |-> TRUE, val |-> v]

TestCallback == [kind |-> "test"]

PickCallback(get_dist) == [kind |-> "pick", get_dist |-> get_dist]

StartState(nearest) ==
    [ nearest |-> nearest, panicked |-> FALSE, calls |-> <<>>,
      results |-> <<>>, processed |-> {}, result |-> None, measured |-> <<>> ]

\* the closure handed to test_impl by test: pushes the id, returns nearest
TestClosure(st, id) ==
    [ret |-> st.nearest, st |-> [st EXCEPT !.results = Append(@, id)]]

\* a pick closure that lets a later id of equal distance replace the result
PickClosureLatest(cb, st, id) ==
    IF id \notin st.processed
    THEN LET dist == cb.get_dist[id]
             s1   == [st EXCEPT !.processed = @ \cup {id},
                                !.measured = Append(@, id)]
         IN  IF dist # INFINITY
             THEN [ret |-> dist,
                   st  |-> IF dist <= st.nearest
                           THEN [s1 EXCEPT !.result = Some(id)] ELSE s1]
             ELSE [ret |-> INFINITY, st |-> s1]
    ELSE [ret |-> INFINITY, st |-> st]

\* the closure handed to test_impl by pick
PickClosure(cb, st, id) ==
    IF id \notin st.processed
    THEN LET dist == cb.get_dist[id]
             s1   == [st EXCEPT !.processed = @ \cup {id},
                                !.measured = Append(@, id)]
         IN  IF dist # INFINITY
             THEN [ret |-> dist,
                   st  |-> IF dist < st.nearest
                           THEN [s1 EXCEPT !.result = Some(id)] ELSE s1]
             ELSE [ret |-> INFINITY, st |-> s1]
    ELSE [ret |-> INFINITY, st |-> st]

Callback(cb, st, id) ==
    IF cb.kind = "test" THEN TestClosure(st, id) ELSE PickClosure(cb, st, id)

RECURSIVE FoldCallback(_, _, _, _, _)
\* tree.iter().map(id).fold(nearest, |nearest, id| callback(..).min(nearest))
FoldCallback(slice, k, cell, st, cb) ==
    IF k > Len(slice) THEN st
    ELSE LET r  == Callback(cb, st, slice[k][2])
             s1 == [r.st EXCEPT
                      !.nearest = MinDist(r.ret, st.nearest),
                      !.calls = Append(@, [cell |-> cell, id |-> slice[k][2],
                                           index |-> slice[k][1],
                                           ret |-> r.ret,
                                           before |-> st.nearest])]
         IN  FoldCallback(slice, k + 1, cell, s1, cb)

RECURSIVE LeadingLess(_, _, _)
\* binary_search_by(index < cell): on an ascending slice, the number of
\* leading entries whose index is below cell
LeadingLess(slice, k, cell) ==
    IF k <= Len(slice) /\ CellLess(slice[k][1], cell)
    THEN LeadingLess(slice, k + 1, cell)
    ELSE k - 1

RECURSIVE SubTrees(_, _, _)
\* the scan over the child cells and a final None: the entries before the
\* first child, then one sub-slice per child
SubTrees(slice, sub_cells, k) ==
    IF k > Len(sub_cells) THEN <<slice>>
    ELSE LET i == LeadingLess(slice, 1, sub_cells[k])
         IN  <<SubSeq(slice, 1, i)>>
             \o SubTrees(SubSeq(slice, i + 1, Len(slice)), sub_cells, k + 1)

RECURSIVE TestImpl(_, _, _, _, _, _)
RECURSIVE VisitChildren(_, _, _, _, _, _, _, _)

RECURSIVE VisitChildrenAscending(_, _, _, _, _, _, _, _)
\* a loop over the children in index order, whatever test_order says
VisitChildrenAscending(order, k, sub_trees, sub_cells, sub_tests, st, max_depth, cb) ==
    IF k > Len(order) \/ st.panicked THEN st
    ELSE VisitChildrenAscending(order, k + 1, sub_trees, sub_cells, sub_tests,
                                TestImpl(sub_trees[k + 1], sub_cells[k],
                                         sub_tests[k], st, max_depth, cb),
                                max_depth, cb)

\* the for loop over test_order
VisitChildren(order, k, sub_trees, sub_cells, sub_tests, st, max_depth, cb) ==
    IF k > Len(order) \/ st.panicked THEN st
    ELSE VisitChildren(order, k + 1, sub_trees, sub_cells, sub_tests,
                       TestImpl(sub_trees[order[k] + 1], sub_cells[order[k]],
                                sub_tests[order[k]], st, max_depth, cb),
                       max_depth, cb)

\* a kernel that checks its precondition before anything else
TestImplEager(tree, cell, test_geom, st, max_depth, cb) ==
    IF tree # <<>> /\ (CellLess(tree[1][1], cell) \/ ~Overlaps(cell, tree[Len(tree)][1]))
    THEN [st EXCEPT !.panicked = TRUE]
    ELSE IF tree = <<>> \/ ~ShouldTest(test_geom, st.nearest) THEN st
    ELSE IF max_depth.some /\ Depth(cell) >= max_depth.val
    THEN FoldCallback(tree, 1, cell, st, cb)
    ELSE IF Subdivide(cell) # <<>>
    THEN LET sub_cells == Subdivide(cell)
             sub_trees == SubTrees(tree, sub_cells, 1)
             s1        == FoldCallback(sub_trees[1], 1, cell, st, cb)
         IN  VisitChildren(TestOrder(test_geom), 1, sub_trees, sub_cells,
                           SubdivideGeom(test_geom), s1, max_depth, cb)
    ELSE FoldCallback(tree, 1, cell, st, cb)

\* a kernel that stops one level below max_depth
TestImplDeeper(tree, cell, test_geom, st, max_depth, cb) ==
    IF tree = <<>> \/ ~ShouldTest(test_geom, st.nearest) THEN st
    ELSE IF CellLess(tree[1][1], cell) \/ ~Overlaps(cell, tree[Len(tree)][1])
    THEN [st EXCEPT !.panicked = TRUE]
    ELSE IF max_depth.some /\ Depth(cell) > max_depth.val
    THEN FoldCallback(tree, 1, cell, st, cb)
    ELSE IF Subdivide(cell) # <<>>
    THEN LET sub_cells == Subdivide(cell)
             sub_trees == SubTrees(tree, sub_cells, 1)
             s1        == FoldCallback(sub_trees[1], 1, cell, st, cb)
         IN  VisitChildren(TestOrder(test_geom), 1, sub_trees, sub_cells,
                           SubdivideGeom(test_geom), s1, max_depth, cb)
    ELSE FoldCallback(tree, 1, cell, st, cb)

\* Layer::test_impl
TestImpl(tree, cell, test_geom, st, max_depth, cb) ==
    IF tree = <<>> \/ ~ShouldTest(test_geom, st.nearest) THEN st
    ELSE IF CellLess(tree[1][1], cell) \/ ~Overlaps(cell, tree[Len(tree)][1])
    THEN [st EXCEPT !.panicked = TRUE]
    ELSE IF max_depth.some /\ Depth(cell) >= max_depth.val
    THEN FoldCallback(tree, 1, cell, st, cb)
    ELSE IF Subdivide(cell) # <<>>
    THEN LET sub_cells == Subdivide(cell)
             sub_trees == SubTrees(tree, sub_cells, 1)
             s1        == FoldCallback(sub_trees[1], 1, cell, st, cb)
         IN  VisitChildren(TestOrder(test_geom), 1, sub_trees, sub_cells,
                           SubdivideGeom(test_geom), s1, max_depth, cb)
    ELSE FoldCallback(tree, 1, cell, st, cb)

RECURSIVE DedupIds(_)
DedupIds(s) ==
    IF Len(s) <= 1 THEN s
    ELSE LET r == DedupIds(Tail(s))
         IN  IF s[1] = r[1] THEN r ELSE <<s[1]>> \o r

IdLess(a, b) == a < b

\* the kernel run test makes: on the sorted tree, from the root
TestRun(L, test_geom, max_depth) ==
    TestImpl(SortOp(L).tree, RootCell, test_geom, StartState(INFINITY),
             max_depth, TestCallback)

\* Layer::test
TestOp(L, test_geom, max_depth) ==
    [SortOp(L) EXCEPT !.test_results =
        DedupIds(SortSeq(TestRun(L, test_geom, max_depth).results, IdLess))]

\* a pick that keeps the processed set of the pick before it
PickRunKeep(L, test_geom, max_dist, max_depth, get_dist) ==
    TestImpl(SortOp(L).tree, RootCell, test_geom,
             [StartState(max_dist) EXCEPT !.processed = L.processed],
             max_depth, PickCallback(get_dist))

\* the kernel run pick makes: processed is cleared, then test_impl runs on
\* the sorted tree from the root with nearest = max_dist
PickRun(L, test_geom, max_dist, max_depth, get_dist) ==
    TestImpl(SortOp(L).tree, RootCell, test_geom, StartState(max_dist),
             max_depth, PickCallback(get_dist))

\* Layer::pick: the layer it leaves, given the kernel run it made
PickOp(L, run) == [SortOp(L) EXCEPT !.processed = run.processed]

\* Layer::pick: the value it returns, result.map(|id| (dist, id))
PickResult(run) ==
    IF run.result.some THEN Some(<<run.nearest, run.result.val>>) ELSE None

\* Layer::pick_ray: the geometry it picks with
PickRayGeom(origin, dir, max_dist) == RayGeom(origin, dir, 0, max_dist)

\* Layer::pick_ray: the hit point origin + direction * dist added to the result
PickRayResult(run, origin, dir) ==
    IF PickResult(run).some
    THEN Some(<<PickResult(run).val[1], PickResult(run).val[2],
                origin + dir * PickResult(run).val[1]>>)
    ELSE None

(***************************************************************************)
(* The layer's life: construction, then any sequence of calls.  last       *)
(* records the latest call, its arguments and what it returned; dirty      *)
(* records whether a mutation (an extend that added an entry, a merge)     *)
(* came after the last sort or clear.                                      *)
(***************************************************************************)
NoCall == [op |-> "new"]

\* the layers handed to merge: built, then extended by at most one item
\* (the smallest cell of each, which falls before the entries merged into)
OtherLayers ==
    {Build(m) : m \in MinDepths}
    \cup {ExtendOp(Build(m), <<<<<<0, 1>>, 1>>>>) : m \in 0..MaxDepth}

RECURSIVE Rejected(_, _)
\* the ids of the items of an extend call whose boxes leave the system bounds
Rejected(items, i) ==
    IF i > Len(items) THEN <<>>
    ELSE (IF Contains(items[i][1]) THEN <<>> ELSE <<items[i][2]>>)
         \o Rejected(items, i + 1)

Init ==
    /\ layer \in {Build(m) : m \in MinDepths} \cup {DefaultLayer}
    /\ last = NoCall
    /\ dirty = FALSE
    /\ queries = 0
    /\ kin = <<>>
    /\ kout = <<>>

Clear ==
    /\ layer' = ClearOp(layer)
    /\ last' = [op |-> "clear"]
    /\ dirty' = FALSE
    /\ UNCHANGED <<queries, kin, kout>>

Extend(items) ==
    /\ layer.min_depth <= MaxDepth
    /\ Len(ExtendOp(layer, items).tree) + Len(ExtendOp(layer, items).invalid) <= MaxLen
    /\ layer' = ExtendOp(layer, items)
    /\ last' = [op |-> "extend", items |-> items]
    /\ dirty' = (dirty \/ Len(layer'.tree) > Len(layer.tree))
    /\ UNCHANGED <<queries, kin, kout>>

Merge(other) ==
    /\ Len(layer.tree) + Len(layer.invalid) + Len(other.tree) <= MaxLen
    /\ layer' = MergeOp(layer, other)
    /\ last' = [op |-> "merge", self |-> layer.min_depth, other |-> other.min_depth]
    /\ dirty' = TRUE
    /\ UNCHANGED <<queries, kin, kout>>

Sort ==
    /\ layer' = SortOp(layer)
    /\ last' = [op |-> "sort", moved |-> (SortOp(layer).tree # layer.tree)]
    /\ dirty' = FALSE
    /\ UNCHANGED <<queries, kin, kout>>

ParSort ==
    /\ layer' = ParSortOp(layer)
    /\ last' = [op |-> "sort", moved |-> (ParSortOp(layer).tree # layer.tree)]
    /\ dirty' = FALSE
    /\ UNCHANGED <<queries, kin, kout>>

ScanFiltered(filter) ==
    /\ layer' = ScanFilteredOp(layer, filter)
    /\ last' = [op |-> "scan", filter |-> filter]
    /\ dirty' = FALSE
    /\ UNCHANGED <<queries, kin, kout>>

ParScanFiltered(threads, filter) ==
    /\ layer' = ParScanFilteredOp(layer, threads, filter)
    /\ last' = [op |-> "par_scan", filter |-> filter, threads |-> threads]
    /\ dirty' = FALSE
    /\ UNCHANGED <<queries, kin, kout>>

\* the queries are counted; count is TRUE where their number is bounded
CountQuery(count) ==
    IF count THEN queries < MaxQueries /\ queries' = queries + 1
    ELSE UNCHANGED queries

Test(test_geom, max_depth, count) ==
    /\ CountQuery(count)
    /\ layer' = TestOp(layer, test_geom, max_depth)
    /\ last' = [op |-> "test", geom |-> test_geom, max_depth |-> max_depth,
                st |-> TestRun(layer, test_geom, max_depth)]
    /\ dirty' = FALSE
    /\ UNCHANGED <<kin, kout>>

Pick(test_geom, max_dist, max_depth, get_dist, count) ==
    LET run == PickRun(layer, test_geom, max_dist, max_depth, get_dist)
    IN  /\ CountQuery(count)
        /\ layer' = PickOp(layer, run)
        /\ last' = [op |-> "pick", geom |-> test_geom, max_dist |-> max_dist,
                    max_depth |-> max_depth, get_dist |-> get_dist,
                    seen |-> layer.processed, st |-> run,
                    ret |-> PickResult(run)]
        /\ dirty' = FALSE
        /\ UNCHANGED <<kin, kout>>

PickRay(origin, dir, max_dist, max_depth, get_dist, count) ==
    LET run == PickRun(layer, PickRayGeom(origin, dir, max_dist), max_dist,
                       max_depth, get_dist)
    IN  /\ CountQuery(count)
        /\ layer' = PickOp(layer, run)
        /\ last' = [op |-> "pick_ray",
                    geom |-> PickRayGeom(origin, dir, max_dist),
                    max_dist |-> max_dist, max_depth |-> max_depth,
                    get_dist |-> get_dist, seen |-> layer.processed,
                    st |-> run, ret |-> PickRayResult(run, origin, dir)]
        /\ dirty' = FALSE
        /\ UNCHANGED <<kin, kout>>

\* the test and the pick the life of a layer is explored with: a box test of
\* the whole system, and a pick along a ray whose range is empty (it sorts
\* and finds nothing); the kernel's work is explored under SpecQuery
WholeBox == BoxGeom(0, Grid)

EmptyRay == RayGeom(0, 1, 1, 0)

UnitDist == [i \in IDs |-> 1]

Next ==
    \/ Clear
    \/ \E items \in ItemLists : Extend(items)
    \/ \E other \in OtherLayers : Merge(other)
    \/ Sort
    \/ ParSort
    \/ ScanFiltered(AllPairs)
    \/ ParScanFiltered(2, AllPairs)
    \/ Test(WholeBox, None, FALSE)
    \/ Pick(EmptyRay, INFINITY, None, UnitDist, FALSE)

Spec == Init /\ [][Next]_vars

(***************************************************************************)
(* The scans on any tree: the layer is built with some min_depth and       *)
(* extended once by items that each cover exactly one cell, handed over in *)
(* descending order, so that the scan has to sort.                         *)
(***************************************************************************)
CellBox(c) == <<CellLo(c), CellHi(c)>>

RECURSIVE DescendingLists(_, _)
\* the lists of at most n (cell, id) pairs, cells at depth >= d, in
\* descending order
DescendingLists(n, d) ==
    IF n = 0 THEN {<<>>}
    ELSE {<<>>} \cup
         UNION { { <<e>> \o l : l \in {x \in DescendingLists(n - 1, d) :
                                           x = <<>> \/ EntryLess(x[1], e) \/ x[1] = e} }
                 : e \in {c \in Cells : Depth(c) >= d} \X IDs }

ScanItems(l) == [k \in 1..Len(l) |-> <<CellBox(l[k][1]), l[k][2]>>]

ScanLayers ==
    UNION { {ExtendOp(Build(m), ScanItems(l)) : l \in DescendingLists(MaxScanLen, m)}
            : m \in 0..MaxDepth }

InitScan ==
    /\ layer \in ScanLayers
    /\ last = NoCall
    /\ dirty = (layer.tree # <<>>)
    /\ queries = 0
    /\ kin = <<>>
    /\ kout = <<>>

NextScan ==
    \/ \E filter \in Filters : ScanFiltered(filter)
    \/ \E threads \in Threads, filter \in Filters : ParScanFiltered(threads, filter)

SpecScan == InitScan /\ [][NextScan]_vars

(***************************************************************************)
(* The queries: the layer is built with min_depth 0 or 1 and extended once *)
(* by at most MaxQueryItems items; then at most MaxQueries tests and picks *)
(* follow, counted by queries.                                             *)
(***************************************************************************)
\* the items the queried layers hold: the whole system, its left half, a box
\* across the middle (two entries of one id) and a smallest cell
ValidItems ==
    { it \in Items : Contains(it[1]) /\ it[1] # <<Grid \div 2, (Grid \div 2) + 1>> }

\* an item list is handed over in descending order of its boxes' first
\* cells, so that the query has to sort
ItemLess(x, y) ==
    EntryLess(<<Indices(x[1], 0)[1], x[2]>>, <<Indices(y[1], 0)[1], y[2]>>)

QueryItemLists ==
    { items \in UNION {[1..n -> ValidItems] : n \in 0..MaxQueryItems} :
        \A k \in 1..(Len(items) - 1) :
            items[k] = items[k + 1] \/ ItemLess(items[k + 1], items[k]) }

QueryLayers ==
    { ExtendOp(Build(m), items) : m \in {0, 1}, items \in QueryItemLists }

InitQuery ==
    /\ layer \in QueryLayers
    /\ last = NoCall
    /\ dirty = (layer.tree # <<>>)
    /\ queries = 0
    /\ kin = <<>>
    /\ kout = <<>>

\* the distance functions get_dist computes: a tie, distinct distances, and
\* a non-finite answer
GetDists ==
    { [i \in IDs |-> 1], [i \in IDs |-> i],
      [i \in IDs |-> IF i = 1 THEN INFINITY ELSE 2] }

MaxDists == {2, INFINITY}

MaxDepths == {None, Some(0), Some(1)}

PickDepths == {None, Some(1)}

\* test_ray from the far end of the system towards its origin, over any range
WholeRay == RayGeom(Grid, -1, 0, INFINITY)

TestGeoms == {WholeBox, BoxGeom(0, 1), WholeRay}

NextQuery ==
    \/ \E g \in TestGeoms, d \in MaxDepths : Test(g, d, TRUE)
    \/ \E m \in MaxDists, d \in PickDepths, f \in GetDists :
          Pick(WholeBox, m, d, f, TRUE)
    \/ \E m \in MaxDists, f \in GetDists :
          PickRay(Grid, -1, m, None, f, TRUE)

SpecQuery == InitQuery /\ [][NextQuery]_vars

(***************************************************************************)
(* The test kernel called directly: kin is the call (an ascending slice, a *)
(* cell, a geometry, nearest, max_depth), kout what the kernel leaves.     *)
(***************************************************************************)
RECURSIVE AscendingSlices(_)
AscendingSlices(n) ==
    IF n = 0 THEN {<<>>}
    ELSE {<<>>} \cup
         UNION { { <<e>> \o l : l \in {x \in AscendingSlices(n - 1) :
                                           x = <<>> \/ EntryLess(e, x[1]) \/ x[1] = e} }
                 : e \in Cells \X IDs }

\* the cell the geometry of a direct call stands on is the cell of the call
KernelGeoms(cell) ==
    { [BoxGeom(0, Grid) EXCEPT !.cell = cell],
      [BoxGeom(Grid - 1, Grid) EXCEPT !.cell = cell] }

KernelCalls ==
    UNION { { [tree |-> t, cell |-> c, geom |-> g, nearest |-> INFINITY,
               max_depth |-> d]
              : t \in AscendingSlices(MaxSliceLen), g \in KernelGeoms(c),
                d \in {None, Some(1)} }
            : c \in Cells }

InitKernel ==
    /\ layer = Build(0)
    /\ last = NoCall
    /\ dirty = FALSE
    /\ queries = 0
    /\ kin \in KernelCalls
    /\ kout = <<>>

CallTestImpl ==
    /\ kout = <<>>
    /\ kout' = <<TestImpl(kin.tree, kin.cell, kin.geom, StartState(kin.nearest),
                          kin.max_depth, TestCallback)>>
    /\ UNCHANGED <<layer, last, dirty, queries, kin>>

NextKernel == CallTestImpl

SpecKernel == InitKernel /\ [][NextKernel]_vars

(***************************************************************************)
(* Properties of the scans (verified under SpecScan).                      *)
(***************************************************************************)
\* the ids that have an entry in the tree
LayerIds(L) == {L.tree[k][2] : k \in 1..Len(L.tree)}

\* the ordered pairs of distinct ids with overlapping entries in the tree
OverlappingIds(tree) ==
    { p \in IDs \X IDs :
        /\ p[1] # p[2]
        /\ \E i, j \in 1..Len(tree) :
              /\ tree[i][2] = p[1] /\ tree[j][2] = p[2]
              /\ Overlaps(tree[i][1], tree[j][1]) }

\* how often the pair of a and b, in either order, occurs in a pair list
Occurrences(s, a, b) ==
    Cardinality({k \in 1..Len(s) : s[k] = <<a, b>> \/ s[k] = <<b, a>>})

\* C1: after scan (the always-true filter), every two distinct ids with
\* overlapping entries appear as a pair exactly once in the result, and no
\* other pair appears (none of an id with itself).
C1_ScanPairsExactlyOnce ==
    (last.op = "scan" /\ last.filter = AllPairs) =>
        /\ \A p \in OverlappingIds(layer.tree) :
              Occurrences(layer.collisions, p[1], p[2]) = 1
        /\ \A k \in 1..Len(layer.collisions) :
              layer.collisions[k] \in OverlappingIds(layer.tree)

\* C1, what the scan does guarantee: the result holds exactly the pairs of
\* distinct overlapping ids, each ordered pair at most once, in either or both
\* orders
C1_ScanPairsAsSet ==
    (last.op = "scan" /\ last.filter = AllPairs) =>
        /\ \A p \in OverlappingIds(layer.tree) :
              Occurrences(layer.collisions, p[1], p[2]) \in {1, 2}
        /\ \A k \in 1..Len(layer.collisions) :
              layer.collisions[k] \in OverlappingIds(layer.tree)
        /\ \A j, k \in 1..Len(layer.collisions) :
              j < k => PairLess(layer.collisions[j], layer.collisions[k])

\* C1 case: a scan whose result holds a pair in both orders
C1_BothOrders ==
    /\ last.op = "scan" /\ last.filter = AllPairs
    /\ \E j, k \in 1..Len(layer.collisions) :
          layer.collisions[j] = <<layer.collisions[k][2], layer.collisions[k][1]>>

\* C2: par_scan_filtered(f) leaves the sequence of pairs scan_filtered(f)
\* leaves on the same layer, for every worker count, and no split
\* par_scan_impl makes separates two overlapping entries.
C2_ParScanEqualsScan ==
    last.op = "par_scan" =>
        /\ layer.collisions = ScanFilteredOp(layer, last.filter).collisions
        /\ \A s \in ParSplits(layer.min_depth, last.threads, layer.tree) :
              \A i \in 1..Len(s[1]), j \in 1..Len(s[2]) :
                  ~Overlaps(s[1][i][1], s[2][j][1])

\* C2 case: a parallel scan that split the tree into two non-empty halves
\* and found a pair
C2_SplitScanFound ==
    /\ last.op = "par_scan" /\ last.threads > 1
    /\ layer.collisions # <<>>
    /\ \E s \in ParSplits(layer.min_depth, last.threads, layer.tree) :
          s[1] # <<>> /\ s[2] # <<>>

(***************************************************************************)
(* Properties of the layer's life (verified under Spec).                   *)
(***************************************************************************)
Queries == {"scan", "par_scan", "test", "pick"}

\* C3: whenever the sorted flag is true the tree is in ascending order by
\* (Index, ID), and every query leaves the layer sorted, so its kernel ran
\* on an ascending array.
C3_SortedIsAscending ==
    /\ layer.sorted => IsAscending(layer.tree)
    /\ last.op \in Queries => layer.sorted /\ IsAscending(layer.tree)

\* C3 case: a sort that had to move entries
C3_SortMoved == last.op = "sort" /\ last.moved /\ layer.sorted

\* the ids in a list of ids
IdsOf(s) == {s[k] : k \in 1..Len(s)}

\* C5 as stated: an item whose box leaves the system bounds adds no tree
\* entry, its id is appended to invalid by extend, and the id is still in
\* invalid after a scan that follows the extend.
C5_InvalidKeptThroughScan ==
    [][ /\ last'.op = "extend" =>
              /\ Extend(last'.items)
              /\ layer'.tree = ExtendOp(layer, ValidOnly(last'.items, 1)).tree
              /\ layer'.invalid = layer.invalid \o Rejected(last'.items, 1)
        /\ (last.op = "extend" /\ last'.op \in {"scan", "par_scan"}) =>
              IdsOf(Rejected(last.items, 1)) \subseteq IdsOf(layer'.invalid) ]_vars

\* C5 corrected: an item whose box leaves the system bounds adds no tree
\* entry and its id is appended to invalid by extend; invalid is left alone
\* by clear, merge, sort, test and pick, and emptied by every scan; scan and
\* test results hold only ids that have a tree entry.
C5_InvalidUntilScan ==
    [][ /\ last'.op = "extend" =>
              /\ Extend(last'.items)
              /\ layer'.tree = ExtendOp(layer, ValidOnly(last'.items, 1)).tree
              /\ layer'.invalid = layer.invalid \o Rejected(last'.items, 1)
        /\ last'.op \in {"scan", "par_scan"} =>
              /\ layer'.invalid = <<>>
              /\ \A k \in 1..Len(layer'.collisions) :
                    {layer'.collisions[k][1], layer'.collisions[k][2]}
                        \subseteq LayerIds(layer')
        /\ last'.op = "test" => IdsOf(layer'.test_results) \subseteq LayerIds(layer')
        /\ last'.op \in {"clear", "merge", "sort", "test", "pick"} =>
              layer'.invalid = layer.invalid ]_vars

\* C5 case: an extend has rejected an item whose id has no tree entry
C5_Rejected ==
    /\ last.op = "extend" /\ Rejected(last.items, 1) # <<>>
    /\ IdsOf(Rejected(last.items, 1)) \subseteq IdsOf(layer.invalid)
    /\ \E i \in IdsOf(Rejected(last.items, 1)) : i \notin LayerIds(layer)
    /\ layer.tree # <<>>

\* C8: merge(other) appends other's entries after its own, marks itself
\* unsorted and takes the smaller of the two min_depth values, never a
\* larger one; its other buffers stay as they were.
C8_MergeAppends ==
    [][ \A other \in OtherLayers : Merge(other) =>
            /\ layer'.tree = layer.tree \o other.tree
            /\ ~layer'.sorted
            /\ layer'.min_depth = MinDist(layer.min_depth, other.min_depth)
            /\ layer'.min_depth <= layer.min_depth
            /\ layer'.collisions = layer.collisions
            /\ layer'.test_results = layer.test_results
            /\ layer'.processed = layer.processed
            /\ layer'.invalid = layer.invalid ]_vars

\* C8 case: a layer of min_depth 3 has merged a layer of min_depth 1 that
\* holds an entry
C8_MergedThreeOne ==
    /\ last = [op |-> "merge", self |-> 3, other |-> 1]
    /\ layer.min_depth = 1
    /\ layer.tree # <<>>

\* C9: the sorted flag is true exactly when no mutation (an extend that
\* added an entry, a merge) came after the last sort, clear or construction.
C9_SortedIffNoMutation == layer.sorted <=> ~dirty

\* C9 apart from Layer::default(): the flag is true exactly when no mutation
\* came after the last sort, clear or construction, unless the layer is
\* empty and unsorted without a mutation, as Layer::default() leaves it
C9_SortedIffNoMutationOrDefault ==
    (layer.sorted <=> ~dirty) \/ (~layer.sorted /\ ~dirty /\ layer.tree = <<>>)

\* C9 case: the layer Layer::default() constructs, before any call
C9_DefaultLayer == layer = DefaultLayer /\ last = NoCall /\ ~layer.sorted

(***************************************************************************)
(* Properties of the queries (verified under SpecQuery).                   *)
(***************************************************************************)
Picks == {"pick", "pick_ray"}

\* the position in a list of ids of the nearest of the ids at positions K
\* under distance function f, the earliest of them among equals
NearestAt(ids, K, f) ==
    CHOOSE k \in K : \A j \in K :
        f[ids[k]] < f[ids[j]] \/ (f[ids[k]] = f[ids[j]] /\ k <= j)

\* what the pick returned: distance and id, without pick_ray's point
Returned(ret) == <<ret.val[1], ret.val[2]>>

\* C4 as stated, for a pick with a box that covers the whole system (every
\* id of the layer is visited): the pick returns the id with the smallest
\* finite get_dist value in [0, max_dist] among the layer's ids, the
\* first visited among equals, with that distance, and None if there is none.
C4_PickNearestWithin ==
    (last.op = "pick" /\ last.geom = WholeBox) =>
        LET ids    == last.st.measured
            within == {k \in 1..Len(ids) :
                          /\ last.get_dist[ids[k]] # INFINITY
                          /\ last.get_dist[ids[k]] <= last.max_dist}
        IN  /\ IdsOf(ids) = LayerIds(layer)
            /\ IF within = {} THEN last.ret = None
               ELSE /\ last.ret.some
                    /\ Returned(last.ret) =
                          <<last.get_dist[ids[NearestAt(ids, within, last.get_dist)]],
                            ids[NearestAt(ids, within, last.get_dist)]>>

\* C4 corrected: pick and pick_ray return the id with the smallest finite
\* get_dist value strictly below max_dist among the ids handed to get_dist,
\* the first visited among equals, with that distance (pick_ray adds the
\* point origin + direction * distance), and None if there is none; a pick
\* with a box that covers the whole system hands every id of the layer to
\* get_dist.
C4_PickNearestBelow ==
    last.op \in Picks =>
        LET ids   == last.st.measured
            below == {k \in 1..Len(ids) :
                         /\ last.get_dist[ids[k]] # INFINITY
                         /\ last.get_dist[ids[k]] < last.max_dist}
        IN  /\ last.geom = WholeBox => IdsOf(ids) = LayerIds(layer)
            /\ IF below = {} THEN last.ret = None
               ELSE /\ last.ret.some
                    /\ Returned(last.ret) =
                          <<last.get_dist[ids[NearestAt(ids, below, last.get_dist)]],
                            ids[NearestAt(ids, below, last.get_dist)]>>
                    /\ last.op = "pick_ray" =>
                          last.ret.val[3] =
                              last.geom.origin + last.geom.dir * last.ret.val[1]

\* C4 case: a pick measured two ids of equal finite distance below max_dist
\* and returned the one visited first
C4_TieBroken ==
    /\ last.op \in Picks /\ last.ret.some
    /\ Len(last.st.measured) = 2
    /\ last.get_dist[last.st.measured[1]] = last.get_dist[last.st.measured[2]]
    /\ last.ret.val[2] = last.st.measured[1]

C10_MeasuredOnce ==
    last.op \in Picks =>
        LET ids   == last.st.measured
            calls == last.st.calls
        IN  /\ \A j, k \in 1..Len(ids) : j # k => ids[j] # ids[k]
            /\ IdsOf(ids) = {calls[k].id : k \in 1..Len(calls)}
            /\ layer.processed = IdsOf(ids)
            /\ \A k \in 1..Len(calls) :
                  (\E j \in 1..(k - 1) : calls[j].id = calls[k].id) =>
                      /\ calls[k].ret = INFINITY
                      /\ IF k < Len(calls)
                         THEN calls[k + 1].before = calls[k].before
                         ELSE last.st.nearest = calls[k].before

\* C10 case: a pick that follows a pick measures an id the earlier one had
\* processed, and visits an id twice
C10_MeasuredAgain ==
    /\ last.op \in Picks
    /\ \E i \in last.seen : i \in IdsOf(last.st.measured)
    /\ \E j, k \in 1..Len(last.st.calls) :
          j < k /\ last.st.calls[j].id = last.st.calls[k].id

(***************************************************************************)
(* Properties of the test kernel called directly (verified under           *)
(* SpecKernel).                                                            *)
(***************************************************************************)
\* the slice is not empty and breaks the contained-in-cell precondition
PreconditionViolated(tree, cell) ==
    /\ tree # <<>>
    /\ CellLess(tree[1][1], cell) \/ ~Overlaps(cell, tree[Len(tree)][1])

\* C7 as stated: test_impl panics whenever the slice it is given breaks the
\* contained-in-cell precondition.
C7_PanicsWheneverViolated ==
    (kout # <<>> /\ PreconditionViolated(kin.tree, kin.cell)) =>
        kout[1].panicked

\* C7 corrected: test_impl panics exactly when the slice is not empty, the
\* geometry's should_test holds for nearest and the slice breaks the
\* precondition; it panics before any callback; when should_test fails it
\* returns nearest unchanged, whatever the slice.
C7_PanicsUnlessPruned ==
    kout # <<>> =>
        /\ kout[1].panicked <=>
              /\ PreconditionViolated(kin.tree, kin.cell)
              /\ ShouldTest(kin.geom, kin.nearest)
        /\ kout[1].panicked => kout[1].calls = <<>>
        /\ ~ShouldTest(kin.geom, kin.nearest) => kout[1] = StartState(kin.nearest)

\* C7 case: the kernel has panicked on a slice that breaks the precondition
C7_Panicked ==
    /\ kout # <<>>
    /\ PreconditionViolated(kin.tree, kin.cell)
    /\ kout[1].panicked

(***************************************************************************)
(* Properties of the kernel's visiting order (verified under SpecQuery).   *)
(***************************************************************************)
\* the place of child digit d in the order geometry g visits the children
VisitDigit(g, d) == (CHOOSE k \in 1..Len(TestOrder(g)) : TestOrder(g)[k] = d + 1) - 1

\* cell c with every digit replaced by its place in the visiting order
VisitCell(g, c) == [k \in 1..Len(c) |-> VisitDigit(g, c[k])]

\* the (index, id) entries of a list of callback invocations
Entries(calls) == [k \in 1..Len(calls) |-> <<calls[k].index, calls[k].id>>]

\* C11: in a test or pick the callback is invoked on the entries of a cell
\* the traversal subdivides (those equal to the cell) in sorted order
\* before anything below it, then on the children in the order
\* test_order gives, each child the same way; entries handed over at one
\* cell come in sorted order; and when should_test never fails every entry
\* of the tree is handed over exactly once.
C11_VisitOrder ==
    last.op \in Picks \cup {"test"} =>
        LET calls == last.st.calls
        IN  /\ \A k \in 1..Len(calls) :
                  (~last.max_depth.some \/ Depth(calls[k].cell) < last.max_depth.val)
                      => calls[k].index = calls[k].cell
            /\ \A j, k \in 1..Len(calls) : j < k =>
                  \/ CellLess(VisitCell(last.geom, calls[j].cell),
                              VisitCell(last.geom, calls[k].cell))
                  \/ /\ calls[j].cell = calls[k].cell
                     /\ \/ EntryLess(Entries(calls)[j], Entries(calls)[k])
                        \/ Entries(calls)[j] = Entries(calls)[k]
            /\ (last.geom = WholeBox \/ (last.geom = WholeRay /\ last.op = "test"))
                  => SortSeq(Entries(calls), EntryLess) = layer.tree

\* C11 case: a test along a ray that runs against the index order has
\* handed over an entry of the root, then one below the second child, then
\* one below the first child
C11_ParentThenFarChild ==
    /\ last.op = "test" /\ last.geom = WholeRay /\ ~last.max_depth.some
    /\ \E i, j, k \in 1..Len(last.st.calls) :
          /\ i < j /\ j < k
          /\ last.st.calls[i].cell = RootCell
          /\ Depth(last.st.calls[j].cell) >= 1 /\ last.st.calls[j].cell[1] = 1
          /\ Depth(last.st.calls[k].cell) >= 1 /\ last.st.calls[k].cell[1] = 0

(***************************************************************************)
(* Properties of min_depth (verified under Spec).                          *)
(***************************************************************************)
\* C12: after any sequence of build, extend, merge, clear, sort and the
\* queries, every entry of the tree lies on a cell of depth >= the layer's
\* current min_depth; with it, no split the parallel scan makes at
\* min_depth separates two overlapping entries.
C12_EntriesAtMinDepth ==
    /\ \A k \in 1..Len(layer.tree) : Depth(layer.tree[k][1]) >= layer.min_depth
    /\ last.op = "par_scan" =>
          \A s \in ParSplits(layer.min_depth, last.threads, layer.tree) :
              \A i \in 1..Len(s[1]), j \in 1..Len(s[2]) :
                  ~Overlaps(s[1][i][1], s[2][j][1])

\* C12 case: an extend of a layer with min_depth >= 1 by a box that covers
\* the whole system has added entries, on cells of depth min_depth
C12_ExtendedAtMinDepth ==
    /\ last.op = "extend" /\ layer.min_depth >= 1
    /\ \E k \in 1..Len(last.items) : last.items[k][1] = <<0, Grid>>
    /\ \E k \in 1..Len(layer.tree) : Depth(layer.tree[k][1]) = layer.min_depth

(***************************************************************************)
(* Properties of the parallel recursion (verified under SpecScan).         *)
(***************************************************************************)
\* C13: par_scan_impl reaches the sequential base case on every slice and
\* for every worker count: a call at recursion depth n runs with the worker
\* count halved n times, so no call is deeper than the number of halvings
\* that take the worker count to 1; every split index i satisfies
\* 1 <= i <= len, so slice[i-1] and split_at(i) are in range, also when the
\* search runs to the end of the slice and the tail is empty.
C13_ParScanTerminates ==
    last.op = "par_scan" =>
        \A c \in ParCalls(layer.min_depth, last.threads, layer.tree, 0) :
            /\ c.threads >= 1
            /\ c.threads * Pow2(c.depth) <= last.threads
            /\ c.split =>
                  /\ 1 <= c.i /\ c.i <= Len(c.tree)
                  /\ c.i >= Len(c.tree) \div 2
            /\ ~c.split => (c.threads <= 1 \/ Len(c.tree) <= SPLIT_THRESHOLD)

\* C13 case: a parallel scan with four workers whose split search ran to the
\* end of the slice, in the first call and again one level down
C13_SplitAtEnd ==
    /\ last.op = "par_scan" /\ last.threads = 4
    /\ \E c \in ParCalls(layer.min_depth, last.threads, layer.tree, 0) :
          /\ c.split /\ c.depth = 1
          /\ c.i = Len(c.tree) /\ c.tree = layer.tree

====
